---- MODULE Spec2Model ----
(***************************************************************************)
(* A model of src/main.ts of clap-web: the start-up sequence (main,        *)
(* initVectorDB, loadModels), the four click handlers                      *)
(* (handleEmbedAudioFolder, handleTextSearch, handleAudioFileSearch,       *)
(* clearDB) and the callbacks of the delete request clearDB issues.        *)
(*                                                                         *)
(* JavaScript runs every piece of code between two suspension points to    *)
(* completion, so one action is one such piece: from a click, a resolved   *)
(* promise or a request callback up to the next await that waits for the   *)
(* encoder, the model download or the store. The encoders                  *)
(* (@huggingface/transformers), the store (idb-vector) and IndexedDB are   *)
(* outside the repository: what they answer is chosen with \E.             *)
(***************************************************************************)
EXTENDS Integers, Sequences, FiniteSets, TLC

\* ------------------------------------------------------------------ bounds
MaxFiles == 2      \* files in one selection of audioFolderInput
MaxStore == 2      \* records the backing collection may hold
MaxClears == 2     \* delete requests that may be outstanding together
MaxQueryLen == 2   \* characters typed into textSearchInput
MaxLimit == 2      \* the largest limit of a direct call of searchDB

\* --------------------------------------------------------------- constants
\* the k both search handlers pass to searchDB
SearchLimit == 10

\* the controls disableControls sets
Controls ==
  {"embedAudioButton", "searchButton", "searchAudioButton", "clearDbButton",
   "textSearchInput", "audioFolderInput", "audioSearchInput"}

\* media types a selected file may carry (File.type)
FileTypes == {"audio/wav", "text/plain"}

\* what an encoder call may end in: a thrown error, or the .data of the
\* embedding tensor, empty or not
EncoderOutcomes == {"error", "empty", "vector"}

\* characters of a text query
QueryChars == {" ", "a"}

VARIABLES
  tokenizer,       \* TRUE when the module variable is not null
  textModel,
  audioProcessor,
  audioModel,
  db,
  disabled,        \* disabled[c]: the disabled flag of control c
  mainpc,          \* where main() stands
  loadsStarted,    \* number of times loadModels has been entered
  store,           \* contents of the records of the backing collection, in key order
  storeDims,       \* the lengths the embeddings of those records have
  reqPending,      \* delete requests issued, no callback fired yet
  reqBlocked,      \* delete requests whose onblocked has fired, still outstanding
  reqEvent,        \* the event the last step delivered to a delete request, or "none"
  cleared,         \* a delete request has succeeded since the store was initialized
  embedPc,         \* where handleEmbedAudioFolder stands
  files,           \* the handler's local files: the media types of the batch
  idx,             \* 1-based position of the file the loop is at
  count,           \* the handler's local count
  embedCalls,      \* positions for which the running batch called getAudioEmbedding
  insertCalls,     \* positions for which the running batch issued db.insert
  inFlight,        \* positions whose db.insert is issued and not settled
  array,           \* the array insertIntoDB has passed to that db.insert
  inserted,        \* positions whose db.insert the store completed for the
                   \* running batch, in that order
  textPc,          \* where handleTextSearch stands
  audioPc,         \* where handleAudioFileSearch stands
  out              \* what the last step wrote: status lines, alerts, result list

vars ==
  <<tokenizer, textModel, audioProcessor, audioModel, db, disabled, mainpc,
    loadsStarted, store, storeDims, reqPending, reqBlocked, reqEvent, cleared,
    embedPc, files, idx, count, embedCalls, insertCalls, inFlight, array,
    inserted, textPc, audioPc, out>>

modelVars == <<tokenizer, textModel, audioProcessor, audioModel>>
storeVars == <<store, storeDims, reqPending, reqBlocked, cleared>>
batchVars ==
  <<embedPc, files, idx, count, embedCalls, insertCalls, inFlight, array,
    inserted>>
searchVars == <<textPc, audioPc>>

\* ---------------------------------------------------------------- messages
\* One written message: the element (or "alert"), the text with its
\* interpolations left out, and the interpolated numbers.
Msg(el, text, args) == [el |-> el, text |-> text, args |-> args]

updateModelStatus(message) == Msg("modelStatus", message, <<>>)
updateAudioEmbedStatus(message, args) == Msg("audioEmbedStatus", message, args)
updateDbStatus(message) == Msg("dbStatus", message, <<>>)
alert(message) == Msg("alert", message, <<>>)

\* a step that is not a callback of a delete request writes msgs
Emit(msgs) == out' = msgs /\ reqEvent' = "none"

\* ---------------------------------------------------------------- controls
disableControls(value) == [c \in Controls |-> value]

\* line 416: what main requires before it enables the controls
AllLoaded == db /\ tokenizer /\ textModel /\ audioProcessor /\ audioModel

\* main() is suspended on a download, or has returned: only then can the
\* browser deliver a click. Between two awaits of already settled promises
\* (after initVectorDB, after loadModels) only microtasks run.
AtTaskBoundary ==
  mainpc \in {"tokenizer", "textModel", "audioProcessor", "audioModel", "done"}

\* a click listener runs only for a control that is not disabled
UserCanClick(button) == AtTaskBoundary /\ ~disabled[button]

\* -------------------------------------------------------------------- Init
\* The state when main() has executed its first line, disableControls(true).
Init ==
  /\ tokenizer = FALSE
  /\ textModel = FALSE
  /\ audioProcessor = FALSE
  /\ audioModel = FALSE
  /\ db = FALSE
  /\ disabled = disableControls(TRUE)
  /\ mainpc = "initVectorDB"
  /\ loadsStarted = 0
  /\ store = <<>>
  /\ storeDims = {}
  /\ reqPending = 0
  /\ reqBlocked = 0
  /\ reqEvent = "none"
  /\ cleared = FALSE
  /\ embedPc = "idle"
  /\ files = <<>>
  /\ idx = 1
  /\ count = 0
  /\ embedCalls = <<>>
  /\ insertCalls = <<>>
  /\ inFlight = {}
  /\ array = "null"
  /\ inserted = <<>>
  /\ textPc = "idle"
  /\ audioPc = "idle"
  /\ out = <<>>

\* ---------------------------------------------------------------- start-up
\* initVectorDB, lines 136-156: it awaits nothing, so it is one step. The
\* VectorDB constructor returns or throws.
initVectorDB ==
  /\ mainpc = "initVectorDB"
  /\ \E constructed \in BOOLEAN :
       IF constructed
         THEN /\ db' = TRUE
              /\ cleared' = FALSE
              /\ disabled' = disableControls(FALSE)
              /\ Emit(<<updateDbStatus("Initializing vector database..."),
                          updateDbStatus("Vector database initialized.")>>)
         ELSE /\ UNCHANGED <<db, cleared>>
              /\ disabled' = disableControls(TRUE)
              /\ Emit(<<updateDbStatus("Initializing vector database..."),
                          updateDbStatus("Failed to initialize vector database. App will not function correctly.")>>)
  /\ mainpc' = "loadModels"
  /\ UNCHANGED <<modelVars, loadsStarted, store, storeDims, reqPending,
                 reqBlocked, batchVars, searchVars>>

\* loadModels, lines 92-96: up to the await of the tokenizer download
loadModelsStart ==
  /\ mainpc = "loadModels"
  /\ disabled' = disableControls(TRUE)
  /\ loadsStarted' = loadsStarted + 1
  /\ Emit(<<updateModelStatus("Loading tokenizer...")>>)
  /\ mainpc' = "tokenizer"
  /\ UNCHANGED <<modelVars, db, storeVars, batchVars, searchVars>>

\* the catch block of loadModels, lines 128-132, then the return to main
loadModelsCatch ==
  /\ disabled' = disableControls(TRUE)
  /\ Emit(<<updateModelStatus("Error loading models")>>)
  /\ mainpc' = "check"
  /\ UNCHANGED <<modelVars, db, loadsStarted, storeVars, batchVars,
                 searchVars>>

\* line 96-97
loadTokenizer ==
  /\ mainpc = "tokenizer"
  /\ \/ /\ tokenizer' = TRUE
        /\ Emit(<<updateModelStatus("Tokenizer loaded. Loading text model...")>>)
        /\ mainpc' = "textModel"
        /\ UNCHANGED <<textModel, audioProcessor, audioModel, db, disabled,
                       loadsStarted, storeVars, batchVars, searchVars>>
     \/ loadModelsCatch

\* lines 98-111
loadTextModel ==
  /\ mainpc = "textModel"
  /\ \/ /\ textModel' = TRUE
        /\ Emit(<<updateModelStatus("Text model loaded. Loading audio processor...")>>)
        /\ mainpc' = "audioProcessor"
        /\ UNCHANGED <<tokenizer, audioProcessor, audioModel, db, disabled,
                       loadsStarted, storeVars, batchVars, searchVars>>
     \/ loadModelsCatch

\* lines 112-113
loadAudioProcessor ==
  /\ mainpc = "audioProcessor"
  /\ \/ /\ audioProcessor' = TRUE
        /\ Emit(<<updateModelStatus("Audio processor loaded. Loading audio model...")>>)
        /\ mainpc' = "audioModel"
        /\ UNCHANGED <<tokenizer, textModel, audioModel, db, disabled,
                       loadsStarted, storeVars, batchVars, searchVars>>
     \/ loadModelsCatch

\* lines 114-127: the last download; on success loadModels enables the controls
loadAudioModel ==
  /\ mainpc = "audioModel"
  /\ \/ /\ audioModel' = TRUE
        /\ disabled' = disableControls(FALSE)
        /\ Emit(<<updateModelStatus("All models loaded successfully!")>>)
        /\ mainpc' = "check"
        /\ UNCHANGED <<tokenizer, textModel, audioProcessor, db,
                       loadsStarted, storeVars, batchVars, searchVars>>
     \/ loadModelsCatch

\* the progress callbacks of the two model downloads, lines 101-108 and 117-123
progress_callback ==
  /\ mainpc \in {"textModel", "audioModel"}
  /\ Emit(<<updateModelStatus(IF mainpc = "textModel"
                                   THEN "Loading text model"
                                   ELSE "Loading audio model")>>)
  /\ UNCHANGED <<modelVars, db, disabled, mainpc, loadsStarted, storeVars,
                 batchVars, searchVars>>

\* main, lines 415-423: after loadModels has returned
mainCheck ==
  /\ mainpc = "check"
  /\ IF AllLoaded
       THEN /\ disabled' = disableControls(FALSE)
            /\ Emit(<<>>)
       ELSE /\ UNCHANGED disabled
            /\ Emit(<<updateModelStatus("Application initialization failed. Some features may be disabled.")>>)
  /\ mainpc' = "done"
  /\ UNCHANGED <<modelVars, db, loadsStarted, storeVars, batchVars,
                 searchVars>>

\* ------------------------------------------------------------------- clear
\* the three callbacks clearDB installs, lines 270-281: what each writes
onerror == <<updateDbStatus("Error clearing DB")>>

\* a blocked request reported through the error status
onblockedAsError == <<updateDbStatus("Error clearing DB")>>

onblocked ==
  <<alert("Database clearing was blocked, probably due to an open connection.")>>

onsuccess ==
  <<updateDbStatus("Database cleared."), Msg("searchResultsList", "", <<>>)>>

\* line 263: clearDB issues the delete request only with a store handle
clearDBIssues == db

\* clearDB, lines 262-282: the click. It issues indexedDB.deleteDatabase and
\* returns; it does not touch the controls.
clearDB ==
  /\ UserCanClick("clearDbButton")
  /\ IF clearDBIssues
       THEN /\ reqPending + reqBlocked < MaxClears
            /\ reqPending' = reqPending + 1
            /\ Emit(<<>>)
       ELSE /\ UNCHANGED reqPending
            /\ Emit(<<updateDbStatus("Database not initialized.")>>)
  /\ UNCHANGED <<modelVars, db, disabled, mainpc, loadsStarted, store,
                 storeDims, reqBlocked, cleared, batchVars, searchVars>>

\* IndexedDB fires "blocked" at a delete request while another connection
\* to the database is open; the request stays outstanding.
deleteBlocked ==
  /\ reqPending > 0
  /\ reqPending' = reqPending - 1
  /\ reqBlocked' = reqBlocked + 1
  /\ reqEvent' = "blocked"
  /\ out' = onblocked
  /\ UNCHANGED <<modelVars, db, disabled, mainpc, loadsStarted, store,
                 storeDims, cleared, batchVars, searchVars>>

\* one outstanding request, blocked before or not, leaves the count
RequestSettles ==
  \/ /\ reqPending > 0
     /\ reqPending' = reqPending - 1
     /\ UNCHANGED reqBlocked
  \/ /\ reqBlocked > 0
     /\ reqBlocked' = reqBlocked - 1
     /\ UNCHANGED reqPending

\* the database is deleted: "success" fires
deleteSuccess ==
  /\ RequestSettles
  /\ store' = <<>>
  /\ storeDims' = {}
  /\ cleared' = TRUE
  /\ reqEvent' = "success"
  /\ out' = onsuccess
  /\ UNCHANGED <<modelVars, db, disabled, mainpc, loadsStarted, batchVars,
                 searchVars>>

\* the delete fails: "error" fires
deleteError ==
  /\ RequestSettles
  /\ reqEvent' = "error"
  /\ out' = onerror
  /\ UNCHANGED <<modelVars, db, disabled, mainpc, loadsStarted, store,
                 storeDims, cleared, batchVars, searchVars>>

\* ----------------------------------------------------------------- encoders
\* getTextEmbedding without its guard
TextEncoderReadyAlways == TRUE

\* line 160
TextEncoderReady == tokenizer /\ textModel

\* line 178
AudioEncoderReady == audioProcessor /\ audioModel

\* getTextEmbedding / getAudioEmbedding: what they return for what the
\* encoder call ended in (the catch blocks return null)
EmbeddingOf(outcome) == IF outcome = "error" THEN "null" ELSE outcome

\* if (embedding), lines 309, 339, 367: any Float32Array is truthy, an empty
\* one too
Truthy(embedding) == embedding # "null"

\* ------------------------------------------------------------ batch-embed
\* the test of the loop with every file taken for audio
IsAudioAny(type) == TRUE

\* file.type.startsWith("audio/"), line 303
IsAudio(type) == Len(type) >= 6 /\ SubSeq(type, 1, 6) = "audio/"

\* line 290
EmbedReady == audioModel /\ audioProcessor /\ db

\* the selections of audioFolderInput
FileLists == UNION {[1..n -> FileTypes] : n \in 0..MaxFiles}

\* positions of fs that hold audio files, in order
RECURSIVE AudioPositions(_, _)
AudioPositions(fs, i) ==
  IF i > Len(fs) THEN <<>>
  ELSE IF IsAudio(fs[i]) THEN <<i>> \o AudioPositions(fs, i + 1)
  ELSE AudioPositions(fs, i + 1)

\* line 211: insertIntoDB calls db.insert only with a store handle
insertIssues == db

\* insertIntoDB called without await
AwaitsInsertNot == FALSE

\* line 310: the handler awaits insertIntoDB before it goes on
AwaitsInsert == TRUE

\* the error of the encoder leaves the handler
PcAfterEmbedErrorAborts == "idle"

\* lines 193-196: getAudioEmbedding catches the error and returns null, so
\* the loop goes on with the next file
PcAfterEmbedError == "loop"

\* line 311: count++ follows the awaited insertIntoDB, whatever it did
CountAfterInsert(c) == c + 1

\* handleEmbedAudioFolder, lines 285-298: the click
handleEmbedAudioFolder ==
  /\ UserCanClick("embedAudioButton")
  /\ embedPc = "idle"
  /\ \E fs \in FileLists :
       IF Len(fs) = 0
         THEN /\ Emit(<<updateAudioEmbedStatus("No folder/files selected.", <<>>)>>)
              /\ UNCHANGED <<disabled, batchVars>>
       ELSE IF ~EmbedReady
         THEN /\ Emit(<<updateAudioEmbedStatus("Models or DB not ready.", <<>>)>>)
              /\ UNCHANGED <<disabled, batchVars>>
         ELSE /\ Len(store) + Len(AudioPositions(fs, 1)) <= MaxStore
              /\ disabled' = disableControls(TRUE)
              /\ Emit(<<updateAudioEmbedStatus("Processing files...", <<Len(fs)>>)>>)
              /\ files' = fs
              /\ idx' = 1
              /\ count' = 0
              /\ embedCalls' = <<>>
              /\ insertCalls' = <<>>
              /\ inserted' = <<>>
              /\ embedPc' = "loop"
              /\ UNCHANGED <<inFlight, array>>
  /\ UNCHANGED <<modelVars, db, mainpc, loadsStarted, storeVars, searchVars>>

\* lines 302-308 and 317-322: one turn of the loop up to the await of the
\* encoder, or the end of the handler, where its locals go
embedLoop ==
  /\ embedPc = "loop"
  /\ IF idx > Len(files)
       THEN /\ Emit(<<updateAudioEmbedStatus("Finished embedding audio files.", <<count>>)>>)
            /\ disabled' = disableControls(FALSE)
            /\ embedPc' = "idle"
            /\ files' = <<>>
            /\ idx' = 1
            /\ count' = 0
            /\ embedCalls' = <<>>
            /\ insertCalls' = <<>>
            /\ inserted' = <<>>
     ELSE IF IsAudio(files[idx])
       THEN /\ embedCalls' = Append(embedCalls, idx)
            /\ UNCHANGED <<files, count, insertCalls, inserted>>
            /\ IF AudioEncoderReady
                 THEN /\ Emit(<<updateAudioEmbedStatus("Embedding", <<idx, count + 1, Len(files)>>)>>)
                      /\ embedPc' = "embedding"
                      /\ UNCHANGED idx
                 ELSE /\ Emit(<<updateAudioEmbedStatus("Embedding", <<idx, count + 1, Len(files)>>),
                                updateModelStatus("Audio model or processor not loaded.")>>)
                      /\ idx' = idx + 1
                      /\ UNCHANGED embedPc
            /\ UNCHANGED disabled
       ELSE /\ Emit(<<updateAudioEmbedStatus("Skipping non-audio file", <<idx>>)>>)
            /\ idx' = idx + 1
            /\ UNCHANGED <<disabled, embedPc, embedCalls, files, count,
                           insertCalls, inserted>>
  /\ UNCHANGED <<modelVars, db, mainpc, loadsStarted, storeVars, inFlight,
                 array, searchVars>>

\* lines 188-196 and 309-311: the encoder call of getAudioEmbedding ends;
\* with an embedding the handler calls insertIntoDB
embedDone ==
  /\ embedPc = "embedding"
  /\ \E outcome \in EncoderOutcomes :
       LET embedding == EmbeddingOf(outcome) IN
       IF ~Truthy(embedding)
         THEN /\ Emit(<<updateModelStatus("Error creating audio embedding")>>)
              /\ idx' = idx + 1
              /\ embedPc' = PcAfterEmbedError
              /\ UNCHANGED <<count, insertCalls, inFlight, array>>
       ELSE IF ~insertIssues
         THEN /\ Emit(<<updateDbStatus("Database not initialized.")>>)
              /\ count' = CountAfterInsert(count)
              /\ idx' = idx + 1
              /\ embedPc' = "loop"
              /\ UNCHANGED <<insertCalls, inFlight, array>>
         ELSE /\ Emit(<<>>)
              /\ insertCalls' = Append(insertCalls, idx)
              /\ inFlight' = inFlight \cup {idx}
              /\ array' = embedding
              /\ IF AwaitsInsert
                   THEN /\ embedPc' = "inserting"
                        /\ UNCHANGED <<count, idx>>
                   ELSE /\ count' = CountAfterInsert(count)
                        /\ idx' = idx + 1
                        /\ embedPc' = "loop"
  /\ UNCHANGED <<modelVars, db, disabled, mainpc, loadsStarted, storeVars,
                 files, embedCalls, inserted, searchVars>>

\* lines 217-223: a db.insert settles; the store has added the record with
\* the array it was given, or the promise rejects and insertIntoDB reports
\* it. insertIntoDB compares no lengths, and which arrays the store accepts
\* is not its to say. The handler waiting for it goes on with count++.
insertDone ==
  /\ \E i \in inFlight :
       /\ inFlight' = inFlight \ {i}
       /\ array' = "null"
       /\ \/ /\ store' = Append(store, i)
             /\ storeDims' = storeDims \cup {array}
             /\ inserted' = Append(inserted, i)
             /\ Emit(<<>>)
          \/ /\ Emit(<<updateDbStatus("Error inserting into DB")>>)
             /\ UNCHANGED <<store, storeDims, inserted>>
  /\ IF embedPc = "inserting"
       THEN /\ count' = CountAfterInsert(count)
            /\ idx' = idx + 1
            /\ embedPc' = "loop"
       ELSE UNCHANGED <<count, idx, embedPc>>
  /\ UNCHANGED <<modelVars, db, disabled, mainpc, loadsStarted, reqPending,
                 reqBlocked, cleared, files, embedCalls, insertCalls,
                 searchVars>>

\* ------------------------------------------------------------------ search
\* what can be typed into textSearchInput
Queries == UNION {[1..n -> QueryChars] : n \in 0..MaxQueryLen}

\* String.prototype.trim, line 326: strips the blanks at both ends
RECURSIVE TrimStart(_)
TrimStart(q) ==
  IF q # <<>> /\ Head(q) = " " THEN TrimStart(Tail(q)) ELSE q

RECURSIVE TrimEnd(_)
TrimEnd(q) ==
  IF q # <<>> /\ q[Len(q)] = " " THEN TrimEnd(SubSeq(q, 1, Len(q) - 1)) ELSE q

trim(q) == TrimEnd(TrimStart(q))

\* the readiness check of the text search without the store handle
TextSearchReadyIgnoresDb == textModel /\ tokenizer

\* line 331
TextSearchReady == textModel /\ tokenizer /\ db

\* line 356
AudioSearchReady == audioModel /\ audioProcessor /\ db

\* the checks of searchDB without the one of the length
searchDBIssuesAnyLength(embedding) == db

\* lines 236-243: searchDB calls db.query only with a store handle and a
\* non-empty embedding
searchDBIssues(embedding) == db /\ embedding # "empty"

\* lines 236-243: what searchDB writes when it returns [] without a query
searchDBRejects ==
  IF ~db THEN <<updateDbStatus("Database not initialized.")>>
  ELSE <<updateModelStatus("Cannot search with empty embedding.")>>

\* the similarities a query can have to a record, in units the model counts
Sims == {0, 1}

\* the similarity of the query to each record of the store, by key
SimsOfStore == [1..Len(store) -> Sims]

\* the keys of the store, most similar first, earlier key first among equals
Ranked(sims) ==
  LET n == Len(sims) IN
  CHOOSE p \in [1..n -> 1..n] :
    \A i, j \in 1..n :
      i < j => \/ sims[p[i]] > sims[p[j]]
               \/ sims[p[i]] = sims[p[j]] /\ p[i] < p[j]

\* db.query(array, {limit: k}), lines 250-252: the results the store answers
\* with, by the contract of the query engine
dbQuery(sims, k) ==
  LET p == Ranked(sims)
      n == IF k < Len(sims) THEN k ELSE Len(sims)
  IN [i \in 1..n |-> [key |-> p[i], similarity |-> sims[p[i]]]]

\* the limit handed to db.query, with the default of searchDB forgotten for
\* the argument
optionsLimitDefault(k) == SearchLimit

\* line 251: the options of db.query
optionsLimit(k) == k

\* displayResults, lines 379-408
displayResults(results) ==
  Msg("searchResultsList",
      IF Len(results) = 0 THEN "No results found." ELSE "Showing results",
      <<Len(results)>>)

\* handleTextSearch, lines 325-338: the click, with typed in textSearchInput
handleTextSearchOn(typed) ==
  /\ UserCanClick("searchButton")
  /\ textPc = "idle"
  /\ LET query == trim(typed) IN
       IF query = <<>>
         THEN /\ Emit(<<alert("Please enter a search query.")>>)
              /\ UNCHANGED <<disabled, textPc>>
       ELSE IF ~TextSearchReady
         THEN /\ Emit(<<updateModelStatus("Models or DB not ready for search.")>>)
              /\ UNCHANGED <<disabled, textPc>>
       ELSE IF TextEncoderReady
         THEN /\ disabled' = disableControls(TRUE)
              /\ Emit(<<updateModelStatus("Generating text embedding for search...")>>)
              /\ textPc' = "embedding"
         ELSE /\ disabled' = disableControls(FALSE)
              /\ Emit(<<updateModelStatus("Generating text embedding for search..."),
                        updateModelStatus("Text model or tokenizer not loaded."),
                        updateModelStatus("Failed to generate embedding for search.")>>)
              /\ UNCHANGED textPc
  /\ UNCHANGED <<modelVars, db, mainpc, loadsStarted, storeVars, batchVars,
                 audioPc>>

handleTextSearch == \E typed \in Queries : handleTextSearchOn(typed)

\* the controls after a search whose embedding failed, with the handler
\* returning from its else branch
ControlsAfterFailedEmbeddingKept == disabled

\* lines 344-347 and 373-376: the else branch falls through to
\* disableControls(false)
ControlsAfterFailedEmbedding == disableControls(FALSE)

\* lines 166-172 and 339-347: the text encoder call ends
textEmbedDone ==
  /\ textPc = "embedding"
  /\ \E outcome \in EncoderOutcomes :
       LET embedding == EmbeddingOf(outcome) IN
       IF ~Truthy(embedding)
         THEN /\ Emit(<<updateModelStatus("Error creating text embedding"),
                        updateModelStatus("Failed to generate embedding for search.")>>)
              /\ disabled' = ControlsAfterFailedEmbedding
              /\ textPc' = "idle"
       ELSE IF searchDBIssues(embedding)
         THEN /\ Emit(<<updateModelStatus("Searching database...")>>)
              /\ textPc' = "querying"
              /\ UNCHANGED disabled
         ELSE /\ Emit(<<updateModelStatus("Searching database...")>>
                      \o searchDBRejects
                      \o <<displayResults(<<>>), updateModelStatus("Search complete.")>>)
              /\ disabled' = disableControls(FALSE)
              /\ textPc' = "idle"
  /\ UNCHANGED <<modelVars, db, mainpc, loadsStarted, storeVars, batchVars,
                 audioPc>>

\* the end of a text search that also keeps the query as a record
textQueryDoneKeepsQuery ==
  /\ textPc = "querying"
  /\ \/ \E sims \in SimsOfStore :
          Emit(<<displayResults(dbQuery(sims, optionsLimit(SearchLimit))),
                 updateModelStatus("Search complete.")>>)
     \/ Emit(<<updateDbStatus("Error searching DB"), displayResults(<<>>),
               updateModelStatus("Search complete.")>>)
  /\ store' = Append(store, 1)
  /\ disabled' = disableControls(FALSE)
  /\ textPc' = "idle"
  /\ UNCHANGED <<modelVars, db, mainpc, loadsStarted, storeDims, reqPending,
                 reqBlocked, cleared, batchVars, audioPc>>

\* lines 250-259 and 342-347: db.query settles
textQueryDone ==
  /\ textPc = "querying"
  /\ \/ \E sims \in SimsOfStore :
          Emit(<<displayResults(dbQuery(sims, optionsLimit(SearchLimit))),
                 updateModelStatus("Search complete.")>>)
     \/ Emit(<<updateDbStatus("Error searching DB"), displayResults(<<>>),
               updateModelStatus("Search complete.")>>)
  /\ disabled' = disableControls(FALSE)
  /\ textPc' = "idle"
  /\ UNCHANGED <<modelVars, db, mainpc, loadsStarted, storeVars, batchVars,
                 audioPc>>

\* what audioSearchInput may hold: no file, or one
Selections == UNION {[1..n -> FileTypes] : n \in {0, 1}}

\* handleAudioFileSearch, lines 350-366: the click, with selected in
\* audioSearchInput
handleAudioFileSearchOn(selected) ==
  /\ UserCanClick("searchAudioButton")
  /\ audioPc = "idle"
  /\   IF Len(selected) = 0
         THEN /\ Emit(<<alert("Please select an audio file to search with.")>>)
              /\ UNCHANGED <<disabled, audioPc>>
       ELSE IF ~AudioSearchReady
         THEN /\ Emit(<<updateModelStatus("Models or DB not ready for search.")>>)
              /\ UNCHANGED <<disabled, audioPc>>
       ELSE IF AudioEncoderReady
         THEN /\ disabled' = disableControls(TRUE)
              /\ Emit(<<updateModelStatus("Generating audio embedding")>>)
              /\ audioPc' = "embedding"
         ELSE /\ disabled' = disableControls(FALSE)
              /\ Emit(<<updateModelStatus("Generating audio embedding"),
                        updateModelStatus("Audio model or processor not loaded."),
                        updateModelStatus("Failed to generate embedding for audio search.")>>)
              /\ UNCHANGED audioPc
  /\ UNCHANGED <<modelVars, db, mainpc, loadsStarted, storeVars, batchVars,
                 textPc>>

handleAudioFileSearch ==
  \E selected \in Selections : handleAudioFileSearchOn(selected)

\* lines 188-196 and 367-376: the audio encoder call ends
audioEmbedDone ==
  /\ audioPc = "embedding"
  /\ \E outcome \in EncoderOutcomes :
       LET embedding == EmbeddingOf(outcome) IN
       IF ~Truthy(embedding)
         THEN /\ Emit(<<updateModelStatus("Error creating audio embedding"),
                        updateModelStatus("Failed to generate embedding for audio search.")>>)
              /\ disabled' = ControlsAfterFailedEmbedding
              /\ audioPc' = "idle"
       ELSE IF searchDBIssues(embedding)
         THEN /\ Emit(<<updateModelStatus("Searching database with audio query...")>>)
              /\ audioPc' = "querying"
              /\ UNCHANGED disabled
         ELSE /\ Emit(<<updateModelStatus("Searching database with audio query...")>>
                      \o searchDBRejects
                      \o <<displayResults(<<>>), updateModelStatus("Audio search complete.")>>)
              /\ disabled' = disableControls(FALSE)
              /\ audioPc' = "idle"
  /\ UNCHANGED <<modelVars, db, mainpc, loadsStarted, storeVars, batchVars,
                 textPc>>

\* lines 250-259 and 370-376: db.query settles
audioQueryDone ==
  /\ audioPc = "querying"
  /\ \/ \E sims \in SimsOfStore :
          Emit(<<displayResults(dbQuery(sims, optionsLimit(SearchLimit))),
                 updateModelStatus("Audio search complete.")>>)
     \/ Emit(<<updateDbStatus("Error searching DB"), displayResults(<<>>),
               updateModelStatus("Audio search complete.")>>)
  /\ disabled' = disableControls(FALSE)
  /\ audioPc' = "idle"
  /\ UNCHANGED <<modelVars, db, mainpc, loadsStarted, storeVars, batchVars,
                 textPc>>

\* -------------------------------------------------------------------- Next
Next ==
  \/ initVectorDB
  \/ loadModelsStart
  \/ loadTokenizer
  \/ loadTextModel
  \/ loadAudioProcessor
  \/ loadAudioModel
  \/ progress_callback
  \/ mainCheck
  \/ clearDB
  \/ deleteBlocked
  \/ deleteSuccess
  \/ deleteError
  \/ handleEmbedAudioFolder
  \/ embedLoop
  \/ embedDone
  \/ insertDone
  \/ handleTextSearch
  \/ textEmbedDone
  \/ textQueryDone
  \/ handleAudioFileSearch
  \/ audioEmbedDone
  \/ audioQueryDone

Spec == Init /\ [][Next]_vars

\* --------------------------------------------- the embedding functions alone
\* getTextEmbedding and getAudioEmbedding called directly, as a caller other
\* than the three handlers would while no handler runs and no request is
\* outstanding: the call and the end of its encoder call are one step, and
\* the step writes the returned value after the status lines.
NothingRuns ==
  /\ embedPc = "idle" /\ textPc = "idle" /\ audioPc = "idle"
  /\ inFlight = {} /\ reqPending = 0

\* lines 159-173
getTextEmbedding ==
  /\ AtTaskBoundary
  /\ NothingRuns
  /\ \E outcome \in EncoderOutcomes :
       IF ~TextEncoderReady
         THEN Emit(<<updateModelStatus("Text model or tokenizer not loaded."),
                     Msg("getTextEmbedding", "null", <<>>)>>)
       ELSE IF outcome = "error"
         THEN Emit(<<updateModelStatus("Error creating text embedding"),
                     Msg("getTextEmbedding", EmbeddingOf(outcome), <<>>)>>)
         ELSE Emit(<<Msg("getTextEmbedding", EmbeddingOf(outcome), <<>>)>>)
  /\ UNCHANGED <<modelVars, db, disabled, mainpc, loadsStarted, storeVars,
                 batchVars, searchVars>>

\* lines 175-203
getAudioEmbedding ==
  /\ AtTaskBoundary
  /\ NothingRuns
  /\ \E outcome \in EncoderOutcomes :
       IF ~AudioEncoderReady
         THEN Emit(<<updateModelStatus("Audio model or processor not loaded."),
                     Msg("getAudioEmbedding", "null", <<>>)>>)
       ELSE IF outcome = "error"
         THEN Emit(<<updateModelStatus("Error creating audio embedding"),
                     Msg("getAudioEmbedding", EmbeddingOf(outcome), <<>>)>>)
         ELSE Emit(<<Msg("getAudioEmbedding", EmbeddingOf(outcome), <<>>)>>)
  /\ UNCHANGED <<modelVars, db, disabled, mainpc, loadsStarted, storeVars,
                 batchVars, searchVars>>

NextCalls ==
  \/ Next
  \/ getTextEmbedding
  \/ getAudioEmbedding

SpecCalls == Init /\ [][NextCalls]_vars

\* every await of a handler is on an encoder call or a store call, and each
\* of those completes or fails; the continuation of the handler then runs.
\* A handler waits at one place at a time, so one condition a handler.
embedContinues == embedLoop \/ embedDone \/ insertDone
textContinues == textEmbedDone \/ textQueryDone
audioContinues == audioEmbedDone \/ audioQueryDone

FairSpec ==
  /\ Spec
  /\ WF_vars(embedContinues)
  /\ WF_vars(textContinues)
  /\ WF_vars(audioContinues)

\* ------------------------------------------------------- searchDB alone
\* searchDB called directly with an embedding and a limit while no handler
\* runs and no request is outstanding, lines 226-260: the call and the end
\* of its db.query are one step. The step writes the
\* query the store was sent, if any, the status lines, and last the
\* similarities of the returned results in their order.
Similarities(results) == [i \in 1..Len(results) |-> results[i].similarity]

searchDB ==
  /\ AtTaskBoundary
  /\ NothingRuns
  /\ \E embedding \in {"empty", "vector"}, k \in 1..MaxLimit :
       IF ~searchDBIssues(embedding)
         THEN Emit(searchDBRejects \o <<Msg("searchDB", embedding, <<>>)>>)
         ELSE \/ \E sims \in SimsOfStore :
                   Emit(<<Msg("db.query", embedding, <<k>>),
                          Msg("searchDB", embedding,
                              Similarities(dbQuery(sims, optionsLimit(k))))>>)
              \/ Emit(<<Msg("db.query", embedding, <<k>>),
                        updateDbStatus("Error searching DB"),
                        Msg("searchDB", embedding, <<>>)>>)
  /\ UNCHANGED <<modelVars, db, disabled, mainpc, loadsStarted, storeVars,
                 batchVars, searchVars>>

NextSearch ==
  \/ Next
  \/ searchDB

SpecSearch == Init /\ [][NextSearch]_vars

\* ================================================================== claims
EmbedRunning == embedPc # "idle"
TextRunning == textPc # "idle"
AudioRunning == audioPc # "idle"
\* a clear runs from the click until the first callback of its request
ClearRunning == reqPending > 0

RunningOps ==
  {o \in {"embed", "text", "audio", "clear"} :
     \/ o = "embed" /\ EmbedRunning
     \/ o = "text" /\ TextRunning
     \/ o = "audio" /\ AudioRunning
     \/ o = "clear" /\ ClearRunning}

AllDisabled == \A c \in Controls : disabled[c]

\* the loop has passed the last file: the handler is about to report
PastLastFile == embedPc = "loop" /\ idx > Len(files)

\* the last step wrote the line that ends a batch
Finished ==
  \E i \in 1..Len(out) :
    out[i] = updateAudioEmbedStatus("Finished embedding audio files.", out[i].args)

\* the count that line reports
ReportedCount == out[1].args[1]

\* C1: in every reachable state at most one of batch-embed, text-search,
\* audio-search and clear is Running.
C1_AtMostOneRunning == Cardinality(RunningOps) <= 1

\* C2: in no reachable state is a delete request of clearDB pending (no
\* callback fired yet) while a db.insert of a batch is in flight.
C2_NoClearRacesInsert == ~(reqPending > 0 /\ inFlight # {})

\* C3: once a clear has succeeded, no step issues a db.insert or a db.query
\* through the handle: the handle is invalid until the store is
\* re-initialized.
C3_NoUseAfterClear ==
  [][cleared =>
       /\ inFlight' \subseteq inFlight
       /\ (textPc' = "querying" => textPc = "querying")
       /\ (audioPc' = "querying" => audioPc = "querying")]_vars

\* C4: after initVectorDB or loadModels has failed, the controls that need
\* the failed subsystem are disabled in every later state. Every control
\* needs the store; the text search needs the tokenizer and the text model;
\* batch-embed and the audio search need the audio processor and model.
C4_FailedInitStaysDisabled ==
  /\ (mainpc # "initVectorDB" /\ ~db) => AllDisabled
  /\ (mainpc \in {"check", "done"} /\ ~(tokenizer /\ textModel)) =>
       (disabled["searchButton"] /\ disabled["textSearchInput"])
  /\ (mainpc \in {"check", "done"} /\ ~(audioProcessor /\ audioModel)) =>
       /\ disabled["embedAudioButton"] /\ disabled["audioFolderInput"]
       /\ disabled["searchAudioButton"] /\ disabled["audioSearchInput"]

\* C5: when a batch over N files finishes, the count it reports is
\* N - M - skipped, with M the files whose embed or insert failed, and is
\* the number of records the store gained during the run.
C5_ProcessedIsGained ==
  [][(EmbedRunning /\ ~EmbedRunning') =>
       LET N == Len(files)
           skipped == N - Len(AudioPositions(files, 1))
           M == Len(embedCalls) - Len(inserted)
       IN /\ Finished'
          /\ ReportedCount' = N - M - skipped
          /\ ReportedCount' = Len(inserted)]_vars

\* the audio positions among the first n files of the batch
AudioBefore(n) == AudioPositions(SubSeq(files, 1, n), 1)

\* what is left of the run: three steps at most for each file not yet done
Rank ==
  3 * (Len(files) + 1 - idx)
    + (IF embedPc = "loop" THEN 2 ELSE IF embedPc = "embedding" THEN 1 ELSE 0)

\* C6: in a batch getAudioEmbedding is called for every audio file, whatever
\* happened to the files before it: while the loop stands at a file, the
\* calls made are exactly the audio files up to it, so all of them once it
\* has passed the last file. No failure aborts or stalls the run: while it
\* runs one of its steps is enabled, and each of its steps either ends it
\* with the finished report after the last file or brings it nearer to
\* that end.
C6_PartialFailure ==
  /\ [](/\ embedPc = "loop" =>
             idx <= Len(files) + 1 /\ embedCalls = AudioBefore(idx - 1)
        /\ embedPc \in {"embedding", "inserting"} =>
             idx <= Len(files) /\ embedCalls = AudioBefore(idx)
        /\ PastLastFile => embedCalls = AudioPositions(files, 1)
        /\ EmbedRunning => ENABLED (embedLoop \/ embedDone \/ insertDone))
  /\ [][(EmbedRunning /\ <<embedPc, idx>>' # <<embedPc, idx>>) =>
          \/ embedPc' = "idle" /\ idx > Len(files) /\ Finished'
          \/ EmbedRunning' /\ Rank' < Rank]_vars

\* a batch has passed its last file: the embedding of the first file
\* failed, the second file was embedded and inserted all the same
C6_Witness ==
  /\ PastLastFile
  /\ embedCalls = <<1, 2>>
  /\ insertCalls = <<2>>
  /\ inserted = <<2>>

Increasing(seq) == \A i, j \in 1..Len(seq) : i < j => seq[i] < seq[j]

Elems(seq) == {seq[i] : i \in 1..Len(seq)}

\* C7: within a batch the files are handled one at a time in the order
\* supplied: at most one db.insert is in flight, it is the insert of the
\* file the loop stands at, none is in flight while an embedding is
\* computed, every call made is for a file before or at the loop's position,
\* and the store completes the inserts in increasing file position.
C7_InOrderOneAtATime ==
  /\ Cardinality(inFlight) <= 1
  /\ embedPc \in {"idle", "loop", "embedding"} => inFlight = {}
  /\ embedPc = "inserting" => inFlight = {idx}
  /\ Increasing(embedCalls) /\ Increasing(insertCalls) /\ Increasing(inserted)
  /\ Elems(inserted) \subseteq Elems(insertCalls)
  /\ Elems(insertCalls) \subseteq Elems(embedCalls)
  /\ \A i \in Elems(embedCalls) : i <= idx
  /\ embedPc = "embedding" => Elems(insertCalls) \subseteq 1..(idx - 1)

\* the embedding of a second file is being computed after the first file
\* has been embedded and inserted
C7_Witness ==
  /\ embedPc = "embedding"
  /\ idx = 2
  /\ inserted = <<1>>

NotReadyMsg == <<updateModelStatus("Models or DB not ready for search.")>>

\* a search click that leaves the handler without encoder call, store query
\* or disabled control
NoSearchStarted ==
  /\ textPc' = textPc
  /\ audioPc' = audioPc
  /\ disabled' = disabled
  /\ UNCHANGED <<store, inFlight>>

C9_NoImplicitLoad ==
  [][/\ loadsStarted' <= 1
     /\ (loadsStarted' # loadsStarted => mainpc = "loadModels")
     /\ (tokenizer' # tokenizer => mainpc = "tokenizer")
     /\ (textModel' # textModel => mainpc = "textModel")
     /\ (audioProcessor' # audioProcessor => mainpc = "audioProcessor")
     /\ (audioModel' # audioModel => mainpc = "audioModel")
     /\ (mainpc \in {"check", "done"} =>
           UNCHANGED <<modelVars, loadsStarted>> /\ mainpc' \in {"check", "done"})
     /\ (getTextEmbedding /\ ~(tokenizer /\ textModel)) =>
           /\ out' = <<updateModelStatus("Text model or tokenizer not loaded."),
                       Msg("getTextEmbedding", "null", <<>>)>>
           /\ UNCHANGED <<modelVars, loadsStarted, mainpc>>
     /\ (getAudioEmbedding /\ ~(audioProcessor /\ audioModel)) =>
           /\ out' = <<updateModelStatus("Audio model or processor not loaded."),
                       Msg("getAudioEmbedding", "null", <<>>)>>
           /\ UNCHANGED <<modelVars, loadsStarted, mainpc>>]_vars

\* getTextEmbedding has returned null for want of the text model, after the
\* load of the models failed
C9_Witness ==
  /\ mainpc = "done"
  /\ tokenizer /\ ~textModel
  /\ loadsStarted = 1
  /\ out = <<updateModelStatus("Text model or tokenizer not loaded."),
             Msg("getTextEmbedding", "null", <<>>)>>

\* C10: the step that delivers "blocked" to a delete request writes the
\* blocked alert and nothing else: no status line, so neither the error nor
\* the success report, and not nothing. The step that delivers "error"
\* writes the error status and no alert.
C10_BlockedIsDistinct ==
  /\ reqEvent = "blocked" =>
       /\ out # <<>>
       /\ \A i \in 1..Len(out) :
            out[i] = alert("Database clearing was blocked, probably due to an open connection.")
  /\ reqEvent = "error" =>
       out = <<updateDbStatus("Error clearing DB")>>

\* a delete request has been blocked, the batch that held the store busy
\* still running
C10_Witness ==
  /\ reqEvent = "blocked"
  /\ reqBlocked = 1
  /\ out = onblocked

\* ---------------------------------------------------------------------
\* C11: an insert of a vector whose length differs from the length the
\* records of the store already have is rejected: when such an insert
\* settles the store has as many records as before and the rejection is
\* reported.
\* ---------------------------------------------------------------------
Mismatched == storeDims # {} /\ array \notin storeDims

C11_MismatchRejected ==
  [][ (insertDone /\ Mismatched) =>
        /\ Len(store') = Len(store)
        /\ out' = <<updateDbStatus("Error inserting into DB")>> ]_vars

\* ---------------------------------------------------------------------
\* C12: a searchDB call that sends the store a query with limit k returns
\* as many results as the smaller of k and the number of records, in an
\* order in which no result is more similar than the one before it.
\* C12_RankAlways says so of every such call; C12_Rank of every such call
\* whose query did not fail.
\* ---------------------------------------------------------------------
Min(a, b) == IF a < b THEN a ELSE b

NonIncreasing(seq) ==
  \A i \in 1..Len(seq) - 1 : seq[i] >= seq[i + 1]

QuerySent == out # <<>> /\ out[1].el = "db.query"

QueryFailed ==
  \E i \in 1..Len(out) : out[i] = updateDbStatus("Error searching DB")

Returned == out[Len(out)].args

AllEnabled == \A c \in Controls : ~disabled[c]

C13_ReturnsToIdle ==
  /\ []<>(~EmbedRunning)
  /\ []<>(~TextRunning)
  /\ []<>(~AudioRunning)
  /\ [][/\ (EmbedRunning /\ ~EmbedRunning') => AllEnabled'
        /\ (TextRunning /\ ~TextRunning') => AllEnabled'
        /\ (AudioRunning /\ ~AudioRunning') => AllEnabled']_vars

\* a text search whose embedding failed is back at idle, the controls enabled
C13_Witness ==
  /\ out = <<updateModelStatus("Error creating text embedding"),
             updateModelStatus("Failed to generate embedding for search.")>>
  /\ ~TextRunning
  /\ AllEnabled

\* ---------------------------------------------------------------------
\* C14: the progress line written when the file at position i of the N
\* selected files is taken up reports i of N.
\* ---------------------------------------------------------------------
C14_ProgressIsPosition ==
  \A m \in 1..Len(out) :
    out[m] = updateAudioEmbedStatus("Embedding", out[m].args) =>
      /\ out[m].args[2] = out[m].args[1]
      /\ out[m].args[3] = Len(files)

\* ---------------------------------------------------------------------
\* C15: in a batch a file that is not audio is skipped. No position handed
\* to the encoder or to the store holds such a file, and the step of the
\* loop that meets one writes the skip line alone, no error, leaves the
\* count, the store and the controls as they are and goes on to the next
\* position.
\* ---------------------------------------------------------------------
NonAudio(fs, p) == fs[p] = "text/plain"

MeetsNonAudio ==
  embedLoop /\ idx <= Len(files) /\ NonAudio(files, idx)

C15_NonAudioSkipped ==
  [][/\ \A n \in 1..Len(embedCalls') : ~NonAudio(files', embedCalls'[n])
     /\ \A n \in 1..Len(insertCalls') : ~NonAudio(files', insertCalls'[n])
     /\ \A p \in inFlight' : p \in 1..Len(files') => ~NonAudio(files', p)
     /\ MeetsNonAudio =>
          /\ out' = <<updateAudioEmbedStatus("Skipping non-audio file", <<idx>>)>>
          /\ idx' = idx + 1
          /\ embedPc' = "loop"
          /\ UNCHANGED <<count, store, inFlight, embedCalls, insertCalls,
                         files, disabled>>]_vars

\* the first of two files was not audio and has been skipped; the loop is at
\* the second
C15_Witness ==
  /\ embedPc = "loop"
  /\ Len(files) = 2 /\ idx = 2
  /\ NonAudio(files, 1)
  /\ out = <<updateAudioEmbedStatus("Skipping non-audio file", <<1>>)>>
  /\ embedCalls = <<>>
  /\ count = 0

\* ---------------------------------------------------------------------
\* C16: a searchDB call with an empty embedding, or made without a store
\* handle, returns no results, writes the status line of its condition and
\* sends the store no query.
\* ---------------------------------------------------------------------
searchDBReturned == out # <<>> /\ out[Len(out)].el = "searchDB"

C16_RejectsWithoutQuery ==
  (searchDBReturned /\ (~db \/ out[Len(out)].text = "empty")) =>
    /\ Returned = <<>>
    /\ \A m \in 1..Len(out) : out[m].el # "db.query"
    /\ Len(out) = 2
    /\ out[1] = IF ~db THEN updateDbStatus("Database not initialized.")
                ELSE updateModelStatus("Cannot search with empty embedding.")

\* searchDB has turned an empty embedding away while the store held records
C16_Witness ==
  /\ db
  /\ Len(store) > 0
  /\ out = <<updateModelStatus("Cannot search with empty embedding."),
             Msg("searchDB", "empty", <<>>)>>

\* ---------------------------------------------------------------------
\* C17: whenever a click can be delivered, a control is enabled only if the
\* store handle and the tokenizer, the text model, the audio processor and
\* the audio model are all loaded.
\* ---------------------------------------------------------------------
C17_EnabledOnlyIfAllLoaded ==
  (AtTaskBoundary /\ \E c \in Controls : ~disabled[c]) =>
    db /\ tokenizer /\ textModel /\ audioProcessor /\ audioModel

\* ---------------------------------------------------------------------
\* C18: no step of a text search or of an audio search, whether the search
\* succeeds or fails, changes the records of the store, issues an insert or
\* a delete, or changes the store handle or a model component. A record is
\* added only by an insert of a batch settling and records are removed only
\* by a delete request succeeding.
\* ---------------------------------------------------------------------
SearchStep ==
  \/ handleTextSearch \/ textEmbedDone \/ textQueryDone
  \/ handleAudioFileSearch \/ audioEmbedDone \/ audioQueryDone

C18_SearchesReadOnly ==
  [][/\ SearchStep =>
          UNCHANGED <<store, storeDims, inFlight, insertCalls, reqPending,
                      reqBlocked, cleared, db, modelVars>>
     /\ Len(store') > Len(store) =>
          /\ insertDone
          /\ \E n \in 1..Len(insertCalls) : store' = Append(store, insertCalls[n])
     /\ Len(store') < Len(store) => reqEvent' = "success"]_vars

\* a text search over a store of two records has shown both and ended; the
\* records are there
C18_Witness ==
  /\ out = <<displayResults(<<1, 2>>), updateModelStatus("Search complete.")>>
  /\ textPc = "idle"
  /\ Len(store) = 2

====
